---- MODULE Spec2Model ----
(***************************************************************************)
(* Model of the research agent: the LangGraph workflow of graph.py, the    *)
(* four nodes of nodes.py and the retrieval batch of tools.py.             *)
(*                                                                         *)
(* The GraphState is the record `state`; a node is an operator from the    *)
(* state and the outcome of its collaborator call to the partial update    *)
(* the node returns, and the graph merges the update key by key (every key *)
(* of GraphState is a plain last-value channel).  Strings that the code    *)
(* builds are sequences of tokens, so that strip() and the marker string   *)
(* are computed and not assumed.                                           *)
(***************************************************************************)
EXTENDS Integers, Sequences, FiniteSets, TLC

\* ---------------------------------------------------------------- bounds
MaxIterBound == 2
MaxQueries == 2
MaxNewQueries == 1
MaxDocsPerQuery == 1
NumUrls == 2
NumTitles == 2
NumContents == 1
MaxCited == 3
MaxCitedId == 3

\* ------------------------------------------------------------ value sets
QueryStrs == {"q"}

SeqsUpTo(S, n) == UNION {[1..k -> S] : k \in 0..n}

Document == [url : 1..NumUrls, title : 1..NumTitles, content : 1..NumContents]

\* Tokens of the strings the code builds.
Ws == [t |-> "ws", n |-> 0]
Ch == [t |-> "ch", n |-> 0]
Bracketed(n) == [t |-> "mark", n |-> n]

APOLOGY == <<[t |-> "fixed", n |-> 1]>>
NO_INFORMATION == <<[t |-> "fixed", n |-> 2]>>

AnswerTexts == {<< >>, <<Ch>>, <<Ws, Ch, Ws>>}

\* str(e) of a failure, as words; the search node looks for two of them.
Messages == {<<"HTTP", "429">>, <<"Too Many Requests">>, <<"Request", "timed", "out">>}

Contains(msg, word) == \E i \in 1..Len(msg) : msg[i] = word

\* ------------------------------------------------------------- GraphState
initial_state(k) ==
    [question |-> "question",
     queries |-> << >>,
     documents |-> << >>,
     need_more |-> FALSE,
     final_answer |-> << >>,
     citations |-> << >>,
     loop_count |-> 0,
     max_iter |-> k,
     errors |-> << >>]

\* The graph writes each key of a node's update over the state's value.
Merge(st, upd) ==
    [f \in DOMAIN st |-> IF f \in DOMAIN upd THEN upd[f] ELSE st[f]]

log_error(step, error_type, message) ==
    [errors |-> <<[step |-> step, error_type |-> error_type, message |-> message]>>]

\* ------------------------------------------------------------ tools.py
RECURSIVE Flatten(_)
Flatten(results_lists) ==
    IF results_lists = << >> THEN << >>
    ELSE LET res == Head(results_lists)
         IN  (IF res.is_list THEN res.docs ELSE << >>) \o Flatten(Tail(results_lists))

\* Dedupe that never records a url as seen.
RECURSIVE Dedupe_NothingSeen(_, _)
Dedupe_NothingSeen(flat_results, seen_urls) ==
    IF flat_results = << >> THEN << >>
    ELSE LET result == Head(flat_results)
         IN  IF result.url \notin seen_urls
             THEN <<result>> \o Dedupe_NothingSeen(Tail(flat_results), seen_urls)
             ELSE Dedupe_NothingSeen(Tail(flat_results), seen_urls)

RECURSIVE Dedupe(_, _)
Dedupe(flat_results, seen_urls) ==
    IF flat_results = << >> THEN << >>
    ELSE LET result == Head(flat_results)
         IN  IF result.url \notin seen_urls
             THEN <<result>> \o Dedupe(Tail(flat_results), seen_urls \cup {result.url})
             ELSE Dedupe(Tail(flat_results), seen_urls)

\* results_lists[i] is what gather() holds for queries[i]: a list, or an
\* exception object (is_list = FALSE).
run_concurrent(queries, results_lists) == Dedupe(Flatten(results_lists), {})

QueryResult ==
    {[is_list |-> FALSE, docs |-> << >>]} \cup
    {[is_list |-> TRUE, docs |-> ds] : ds \in SeqsUpTo(Document, MaxDocsPerQuery)}

\* What one search_func(q) call meets: the TavilySearch constructor raises
\* (outside the try), search.arun raises (inside it), or results come back
\* (none when there is no API key or under mock_web_search).
SearchCall ==
    {[kind |-> k, docs |-> << >>] : k \in {"init_raises", "arun_raises"}} \cup
    {[kind |-> "results", docs |-> ds] : ds \in SeqsUpTo(Document, MaxDocsPerQuery)}

\* The value the awaited call leaves: a list, or the exception it raised.
tavily_web_search(call) ==
    IF call.kind = "init_raises" THEN [is_list |-> FALSE, docs |-> << >>]
    ELSE IF call.kind = "arun_raises" THEN [is_list |-> TRUE, docs |-> << >>]
    ELSE [is_list |-> TRUE, docs |-> call.docs]

\* gather that hands the results over in completion order.
gather_CompletionOrder(tasks, completed) ==
    [raised |-> FALSE,
     results_lists |-> [k \in 1..Len(completed) |-> tasks[completed[k]].res]]

\* gather without return_exceptions: the first exception leaves the batch.
gather_FailFast(tasks, completed) ==
    IF \E i \in 1..Len(tasks) : ~tasks[i].res.is_list
    THEN [raised |-> TRUE, results_lists |-> << >>]
    ELSE [raised |-> FALSE, results_lists |-> [i \in 1..Len(tasks) |-> tasks[i].res]]

\* asyncio.gather(*tasks, return_exceptions=True): one slot per task, in the
\* order of the tasks, an exception kept as the slot's value.
gather(tasks, completed) ==
    [raised |-> FALSE, results_lists |-> [i \in 1..Len(tasks) |-> tasks[i].res]]

\* await gather: it returns when no task is outstanding.
ReadyToJoin_Any(tasks) == tasks = << >> \/ \E i \in 1..Len(tasks) : tasks[i].done

ReadyToJoin(tasks) == \A i \in 1..Len(tasks) : tasks[i].done

\* ------------------------------------------------------------ nodes.py
GenerateOutcome ==
    {[kind |-> "ok", queries |-> qs, msg |-> << >>] : qs \in SeqsUpTo(QueryStrs, MaxQueries)} \cup
    {[kind |-> k, queries |-> << >>, msg |-> m] : k \in {"RateLimitError", "Exception"}, m \in Messages}

\* A node's result: the update it returns, or raised = TRUE when the failure
\* of its collaborator leaves the node.
Returns(upd) == [raised |-> FALSE, update |-> upd]
Raises == [raised |-> TRUE, update |-> << >>]

\* generate_queries_node that also writes need_more.
generate_queries_node_SetsNeedMore(st, out) ==
    IF out.kind = "ok" THEN Returns([queries |-> out.queries, need_more |-> TRUE])
    ELSE IF out.kind = "RateLimitError"
    THEN Returns([queries |-> << >>] @@ log_error("generate", "RateLimit", out.msg))
    ELSE Returns([queries |-> << >>] @@ log_error("generate", "LLMFailure", out.msg))

generate_queries_node(st, out) ==
    IF out.kind = "ok" THEN Returns([queries |-> out.queries])
    ELSE IF out.kind = "RateLimitError"
    THEN Returns([queries |-> << >>] @@ log_error("generate", "RateLimit", out.msg))
    ELSE Returns([queries |-> << >>] @@ log_error("generate", "LLMFailure", out.msg))

\* web_search_node that looks for "429" only.
web_search_node_Only429(st, out) ==
    IF out.kind = "ok"
    THEN Returns([documents |-> st.documents \o out.docs, queries |-> << >>])
    ELSE IF Contains(out.msg, "429")
    THEN Returns([documents |-> st.documents] @@ log_error("search", "RateLimit", out.msg))
    ELSE Returns([documents |-> st.documents] @@ log_error("search", "HTTPError", out.msg))

\* web_search_node that returns no documents when the search fails.
web_search_node_DropsOnError(st, out) ==
    IF out.kind = "ok"
    THEN Returns([documents |-> st.documents \o out.docs, queries |-> << >>])
    ELSE IF Contains(out.msg, "429") \/ Contains(out.msg, "Too Many Requests")
    THEN Returns([documents |-> << >>] @@ log_error("search", "RateLimit", out.msg))
    ELSE Returns([documents |-> << >>] @@ log_error("search", "HTTPError", out.msg))

\* out.kind = "ok": asyncio.run returned out.docs; otherwise it raised.
web_search_node(st, out) ==
    IF out.kind = "ok"
    THEN Returns([documents |-> st.documents \o out.docs, queries |-> << >>])
    ELSE IF Contains(out.msg, "429") \/ Contains(out.msg, "Too Many Requests")
    THEN Returns([documents |-> st.documents] @@ log_error("search", "RateLimit", out.msg))
    ELSE Returns([documents |-> st.documents] @@ log_error("search", "HTTPError", out.msg))

\* new_queries is Optional: << >> is None, <<qs>> is the list qs.
ReflectOutcome ==
    {[kind |-> "ok", need_more |-> b, new_queries |-> nq] :
        b \in BOOLEAN,
        nq \in {<< >>} \cup {<<qs>> : qs \in SeqsUpTo(QueryStrs, MaxNewQueries)}} \cup
    {[kind |-> "Exception", need_more |-> FALSE, new_queries |-> << >>]}

OrEmpty(opt) == IF opt = << >> THEN << >> ELSE opt[1]

\* reflect_node that returns loop_count as it found it.
reflect_node_NoIncrement(st, out) ==
    IF out.kind = "ok"
    THEN Returns([need_more |-> out.need_more,
                  queries |-> OrEmpty(out.new_queries),
                  loop_count |-> st.loop_count])
    ELSE Raises

\* The node has no handler: a failure of chain.invoke leaves the node.
reflect_node(st, out) ==
    IF out.kind = "ok"
    THEN Returns([need_more |-> out.need_more,
                  queries |-> OrEmpty(out.new_queries),
                  loop_count |-> st.loop_count + 1])
    ELSE Raises

SynthesizeOutcome ==
    {[kind |-> "ok", answer |-> a, cited_ids |-> ids] :
        a \in AnswerTexts, ids \in SeqsUpTo(0..MaxCitedId, MaxCited)} \cup
    {[kind |-> "Exception", answer |-> << >>, cited_ids |-> << >>]}

\* original_citations_map.get(original_id) finds a document.
Resolves(documents, original_id) == original_id \in 1..Len(documents)

\* The first loop over cited_ids: acc holds final_citations_list, seen_urls
\* and original_to_new_id_map.
\* RemapLoop without the seen_urls test.
RECURSIVE RemapLoop_NoSeenUrls(_, _, _)
RemapLoop_NoSeenUrls(documents, ids, acc) ==
    IF ids = << >> THEN acc
    ELSE LET original_id == Head(ids)
         IN  IF Resolves(documents, original_id)
             THEN LET doc == documents[original_id]
                      new_id == Len(acc.list) + 1
                  IN  RemapLoop_NoSeenUrls(documents, Tail(ids),
                        [list |-> Append(acc.list,
                                    [id |-> new_id, url |-> doc.url, title |-> doc.title]),
                         seen_urls |-> acc.seen_urls \cup {doc.url},
                         map |-> (original_id :> new_id) @@ acc.map])
             ELSE RemapLoop_NoSeenUrls(documents, Tail(ids), acc)

RECURSIVE RemapLoop(_, _, _)
RemapLoop(documents, ids, acc) ==
    IF ids = << >> THEN acc
    ELSE LET original_id == Head(ids)
         IN  IF Resolves(documents, original_id)
                /\ documents[original_id].url \notin acc.seen_urls
             THEN LET doc == documents[original_id]
                      new_id == Len(acc.list) + 1
                  IN  RemapLoop(documents, Tail(ids),
                        [list |-> Append(acc.list,
                                    [id |-> new_id, url |-> doc.url, title |-> doc.title]),
                         seen_urls |-> acc.seen_urls \cup {doc.url},
                         map |-> (original_id :> new_id) @@ acc.map])
             ELSE RemapLoop(documents, Tail(ids), acc)

Remap(documents, cited_ids) ==
    RemapLoop(documents, cited_ids, [list |-> << >>, seen_urls |-> {}, map |-> << >>])

final_citations_list(documents, cited_ids) == Remap(documents, cited_ids).list

\* original_to_new_id_map.get(_id, _id)
MarkerNumber(map, id) == IF id \in DOMAIN map THEN map[id] ELSE id

citation_string_at_end(documents, cited_ids) ==
    LET map == Remap(documents, cited_ids).map
    IN  [i \in 1..Len(cited_ids) |-> Bracketed(MarkerNumber(map, cited_ids[i]))]

\* str.strip(): whitespace off both ends.
RECURSIVE LStrip(_)
LStrip(s) == IF s # << >> /\ Head(s) = Ws THEN LStrip(Tail(s)) ELSE s

RECURSIVE RStrip(_)
RStrip(s) ==
    IF s # << >> /\ s[Len(s)] = Ws THEN RStrip(SubSeq(s, 1, Len(s) - 1)) ELSE s

Strip(s) == RStrip(LStrip(s))

\* called: chain.invoke of the synthesis chain was reached.
SynthReturns(upd, called, marks) ==
    [raised |-> FALSE, update |-> upd, called |-> called, citation_string |-> marks]

\* synthesize_node with the empty-evidence test ahead of the errors test.
synthesize_node_EmptyFirst(st, out) ==
    IF st.documents = << >>
    THEN SynthReturns([final_answer |-> NO_INFORMATION, citations |-> << >>], FALSE, << >>)
    ELSE IF st.errors # << >>
    THEN SynthReturns([final_answer |-> APOLOGY, citations |-> << >>], FALSE, << >>)
    ELSE IF out.kind # "ok"
    THEN [raised |-> TRUE, update |-> << >>, called |-> TRUE, citation_string |-> << >>]
    ELSE LET marks == citation_string_at_end(st.documents, out.cited_ids)
         IN  SynthReturns(
               [final_answer |-> Strip(out.answer \o marks),
                citations |-> final_citations_list(st.documents, out.cited_ids)],
               TRUE, marks)

\* synthesize_node that names the error's type in the apology.
synthesize_node_ShowsErrorType(st, out) ==
    IF st.errors # << >>
    THEN SynthReturns([final_answer |-> APOLOGY \o <<[t |-> st.errors[1].error_type, n |-> 0]>>,
                       citations |-> << >>], FALSE, << >>)
    ELSE IF st.documents = << >>
    THEN SynthReturns([final_answer |-> NO_INFORMATION, citations |-> << >>], FALSE, << >>)
    ELSE IF out.kind # "ok"
    THEN [raised |-> TRUE, update |-> << >>, called |-> TRUE, citation_string |-> << >>]
    ELSE LET marks == citation_string_at_end(st.documents, out.cited_ids)
         IN  SynthReturns(
               [final_answer |-> Strip(out.answer \o marks),
                citations |-> final_citations_list(st.documents, out.cited_ids)],
               TRUE, marks)

\* synthesize_node without the empty-evidence test.
synthesize_node_NoEmptyTest(st, out) ==
    IF st.errors # << >>
    THEN SynthReturns([final_answer |-> APOLOGY, citations |-> << >>], FALSE, << >>)
    ELSE IF out.kind # "ok"
    THEN [raised |-> TRUE, update |-> << >>, called |-> TRUE, citation_string |-> << >>]
    ELSE LET marks == citation_string_at_end(st.documents, out.cited_ids)
         IN  SynthReturns(
               [final_answer |-> Strip(out.answer \o marks),
                citations |-> final_citations_list(st.documents, out.cited_ids)],
               TRUE, marks)

synthesize_node(st, out) ==
    IF st.errors # << >>
    THEN SynthReturns([final_answer |-> APOLOGY, citations |-> << >>], FALSE, << >>)
    ELSE IF st.documents = << >>
    THEN SynthReturns([final_answer |-> NO_INFORMATION, citations |-> << >>], FALSE, << >>)
    ELSE IF out.kind # "ok"
    THEN [raised |-> TRUE, update |-> << >>, called |-> TRUE, citation_string |-> << >>]
    ELSE LET marks == citation_string_at_end(st.documents, out.cited_ids)
         IN  SynthReturns(
               [final_answer |-> Strip(out.answer \o marks),
                citations |-> final_citations_list(st.documents, out.cited_ids)],
               TRUE, marks)

\* ------------------------------------------------------------ graph.py
state_has_error(st) == st.errors # << >>

should_continue_after_generate(st) ==
    IF state_has_error(st) THEN "end_step" ELSE "next_step"

\* should_continue_after_search without the empty-evidence test.
should_continue_after_search_NoEmptyTest(st) ==
    IF state_has_error(st) THEN "end_step" ELSE "next_step"

\* should_continue_after_search without the errors test.
should_continue_after_search_NoErrorTest(st) ==
    IF st.documents = << >> THEN "end_step" ELSE "next_step"

should_continue_after_search(st) ==
    IF state_has_error(st) \/ st.documents = << >> THEN "end_step" ELSE "next_step"

\* should_continue_after_reflect that does not read need_more.
should_continue_after_reflect_IgnoresNeedMore(st) ==
    IF state_has_error(st) THEN "end_step"
    ELSE IF st.loop_count < st.max_iter THEN "next_step"
    ELSE "end_step"

\* should_continue_after_reflect with <= for <.
should_continue_after_reflect_Inclusive(st) ==
    IF state_has_error(st) THEN "end_step"
    ELSE IF st.need_more /\ st.loop_count <= st.max_iter THEN "next_step"
    ELSE "end_step"

should_continue_after_reflect(st) ==
    IF state_has_error(st) THEN "end_step"
    ELSE IF st.need_more /\ st.loop_count < st.max_iter THEN "next_step"
    ELSE "end_step"

\* The conditional edges and the edge synthesize -> END.
workflow(node, st) ==
    CASE node = "generate_queries" ->
           IF should_continue_after_generate(st) = "next_step" THEN "web_search" ELSE "synthesize"
      [] node = "web_search" ->
           IF should_continue_after_search(st) = "next_step" THEN "reflect" ELSE "synthesize"
      [] node = "reflect" ->
           IF should_continue_after_reflect(st) = "next_step" THEN "web_search" ELSE "synthesize"
      [] node = "synthesize" -> "END"

\* ------------------------------------------------------------- the run
VARIABLES
    state,        \* the GraphState of the run
    pc,           \* the node to run next, "END", or "raised" when invoke raised
    last,         \* the node that ran last
    calls,        \* how many times each node has run
    raisedIn,     \* the nodes whose collaborator call has failed
    failure,      \* the exception of the last failed collaborator call
    synthCalls,   \* calls of the synthesis collaborator
    cited,        \* the cited_ids the synthesis collaborator returned
    answer,       \* the answer text the synthesis collaborator returned
    markers,      \* citation_string_at_end of the synthesize node
    gathering,    \* run_concurrent is awaiting its gather
    tasks,        \* the search_func tasks of the batch, in query order
    completed,    \* the tasks' indices in the order they completed
    held,         \* the documents held when the batch was dispatched
    unique_results \* what run_concurrent returned for the batch

synthVars == <<synthCalls, cited, answer, markers>>

batchVars == <<gathering, tasks, completed, held, unique_results>>

vars == <<state, pc, last, calls, raisedIn, failure, synthVars, batchVars>>

Nodes == {"generate_queries", "web_search", "reflect", "synthesize"}

\* The state the caller hands to app.invoke: main.py and the tests build it
\* with empty lists and loop_count = 0; max_iter is the caller's choice
\* (main.py passes 2).
Init ==
    /\ \E k \in 0..MaxIterBound : state = initial_state(k)
    /\ pc = "generate_queries"
    /\ last = "START"
    /\ calls = [n \in Nodes |-> 0]
    /\ raisedIn = {}
    /\ failure = [kind |-> "none", msg |-> << >>]
    /\ synthCalls = 0
    /\ cited = << >>
    /\ answer = << >>
    /\ markers = << >>
    /\ gathering = FALSE
    /\ tasks = << >>
    /\ completed = << >>
    /\ held = << >>
    /\ unique_results = << >>

\* The exception a collaborator call raised: its class and str(e).
Raised(kind, msg) == [kind |-> kind, msg |-> msg]

\* app.invoke runs the node, merges its update and follows the edge; a node
\* that raises ends invoke with the exception.
RunNode(node, res, failed) ==
    /\ pc = node
    /\ last' = node
    /\ calls' = [calls EXCEPT ![node] = @ + 1]
    /\ raisedIn' = IF failed THEN raisedIn \cup {node} ELSE raisedIn
    /\ IF res.raised
       THEN state' = state /\ pc' = "raised"
       ELSE /\ state' = Merge(state, res.update)
            /\ pc' = workflow(node, state')

GenerateQueries ==
    \E out \in GenerateOutcome :
        /\ RunNode("generate_queries", generate_queries_node(state, out), out.kind # "ok")
        /\ failure' = IF out.kind # "ok" THEN Raised(out.kind, out.msg) ELSE failure
        /\ UNCHANGED <<synthVars, batchVars>>

SearchOutcome(queries) ==
    {[kind |-> "ok", docs |-> run_concurrent(queries, rl), msg |-> << >>] :
        rl \in [1..Len(queries) -> QueryResult]} \cup
    {[kind |-> "Exception", docs |-> << >>, msg |-> m] : m \in Messages}

WebSearch ==
    \E out \in SearchOutcome(state.queries) :
        /\ RunNode("web_search", web_search_node(state, out), out.kind # "ok")
        /\ failure' = IF out.kind # "ok" THEN Raised(out.kind, out.msg) ELSE failure
        /\ UNCHANGED <<synthVars, batchVars>>

Reflect ==
    \E out \in ReflectOutcome :
        /\ RunNode("reflect", reflect_node(state, out), out.kind # "ok")
        /\ failure' = IF out.kind # "ok" THEN Raised(out.kind, << >>) ELSE failure
        /\ UNCHANGED <<synthVars, batchVars>>

Synthesize ==
    \E out \in SynthesizeOutcome :
        LET res == synthesize_node(state, out)
        IN  /\ RunNode("synthesize", res, res.called /\ out.kind # "ok")
            /\ failure' = IF res.called /\ out.kind # "ok"
                          THEN Raised(out.kind, << >>) ELSE failure
            /\ synthCalls' = IF res.called THEN synthCalls + 1 ELSE synthCalls
            /\ cited' = IF res.called /\ ~res.raised THEN out.cited_ids ELSE cited
            /\ answer' = IF res.called /\ ~res.raised THEN out.answer ELSE answer
            /\ markers' = res.citation_string
            /\ UNCHANGED batchVars

Next == GenerateQueries \/ WebSearch \/ Reflect \/ Synthesize

\* ------------------------------------ the search step, call by call
\* run_concurrent creates one task per query and awaits gather.
Dispatch ==
    /\ pc = "web_search"
    /\ ~gathering
    /\ gathering' = TRUE
    /\ tasks' = [i \in 1..Len(state.queries) |->
                    [done |-> FALSE, kind |-> "pending",
                     res |-> [is_list |-> TRUE, docs |-> << >>]]]
    /\ completed' = << >>
    /\ held' = state.documents
    /\ UNCHANGED <<state, pc, last, calls, raisedIn, failure, synthVars, unique_results>>

\* One outstanding call completes, with a list or an exception.
Complete ==
    /\ gathering
    /\ \E i \in 1..Len(tasks) : \E call \in SearchCall :
          /\ ~tasks[i].done
          /\ tasks' = [tasks EXCEPT ![i] =
                          [done |-> TRUE, kind |-> call.kind, res |-> tavily_web_search(call)]]
          /\ completed' = Append(completed, i)
    /\ UNCHANGED <<state, pc, last, calls, raisedIn, failure, synthVars, gathering, held,
                   unique_results>>

\* gather returns, run_concurrent flattens and de-duplicates, and the node
\* returns its update.
Join ==
    /\ gathering
    /\ ReadyToJoin(tasks)
    /\ LET g == gather(tasks, completed)
           docs == IF g.raised THEN << >> ELSE run_concurrent(state.queries, g.results_lists)
           out == IF g.raised
                  THEN [kind |-> "Exception", docs |-> << >>, msg |-> <<"Request", "timed", "out">>]
                  ELSE [kind |-> "ok", docs |-> docs, msg |-> << >>]
       IN  /\ RunNode("web_search", web_search_node(state, out), g.raised)
           /\ failure' = IF g.raised THEN Raised(out.kind, out.msg) ELSE failure
           /\ unique_results' = docs
    /\ gathering' = FALSE
    /\ UNCHANGED <<synthVars, tasks, completed, held>>

\* run_concurrent itself raises (the patched tool of the tests): no task is
\* gathered.
SearchRaises ==
    /\ ~gathering
    /\ \E m \in Messages :
          /\ RunNode("web_search",
                     web_search_node(state, [kind |-> "Exception", docs |-> << >>, msg |-> m]),
                     TRUE)
          /\ failure' = Raised("Exception", m)
    /\ tasks' = << >>
    /\ completed' = << >>
    /\ held' = state.documents
    /\ unique_results' = << >>
    /\ UNCHANGED <<synthVars, gathering>>

\* The run up to synthesize, with the search step at the grain of its calls.
NextBatch == GenerateQueries \/ Dispatch \/ Complete \/ Join \/ SearchRaises \/ Reflect

SpecBatch == Init /\ [][NextBatch]_vars

Spec == Init /\ [][Next]_vars

\* app.invoke keeps running nodes until END or an exception.
FairSpec == Spec /\ WF_vars(Next)

\* ------------------------------------------------------------ properties
Ended == pc = "END"

Max(a, b) == IF a >= b THEN a ELSE b

\* C1 as stated: with max_iter = k the web-search step runs at most k times.
C1_SearchAtMostMaxIter == calls["web_search"] <= state.max_iter

\* C1, amended: the web-search step runs at most max(k, 1) times, whatever
\* need_more values reflection returns; the first search does not consult
\* max_iter.
C1_SearchBound == calls["web_search"] <= Max(state.max_iter, 1)

C1_Witness ==
    /\ state.max_iter = 2
    /\ calls["web_search"] = 2
    /\ state.need_more
    /\ pc = "synthesize"

\* C2: once errors is non-empty, the only step that runs is synthesize, on
\* its error branch: no web-search and no reflect step runs again, and the
\* run is waiting for synthesize or has ended.
C2_ErrorShortCircuit ==
    /\ [](state.errors # << >> => pc \in {"synthesize", "END"})
    /\ [][state.errors # << >> =>
            /\ last' = "synthesize"
            /\ calls'["web_search"] = calls["web_search"]
            /\ calls'["reflect"] = calls["reflect"]
            /\ state'.final_answer = APOLOGY
            /\ synthCalls' = synthCalls]_vars

C2_Witness ==
    /\ Ended
    /\ state.errors # << >>
    /\ calls["web_search"] = 2
    /\ calls["reflect"] = 1

StepName(node) ==
    CASE node = "generate_queries" -> "generate"
      [] node = "web_search" -> "search"
      [] node = "reflect" -> "reflect"
      [] node = "synthesize" -> "synthesize"

\* C3: a failure of the collaborator of generate-queries, web-search or
\* reflect does not leave the run: errors holds an ErrorRecord of that step
\* and the run goes on to synthesize.
C3_FailureBecomesErrorRecord ==
    \A node \in raisedIn \ {"synthesize"} :
        /\ pc \in {"synthesize", "END"}
        /\ \E i \in 1..Len(state.errors) : state.errors[i].step = StepName(node)

\* C4: a run that has stopped has stopped after synthesize, which ran
\* exactly once and last, whatever the collaborators did.
C4_EndsBySynthesize ==
    pc \notin Nodes => /\ Ended
                       /\ last = "synthesize"
                       /\ calls["synthesize"] = 1

\* C5: synthesize run with errors recorded answers with the apology text and
\* no citations, and does not call the synthesis collaborator, whatever the
\* evidence holds.
C5_ErrorBranch ==
    (last = "synthesize" /\ state.errors # << >>) =>
        /\ state.final_answer = APOLOGY
        /\ state.citations = << >>
        /\ synthCalls = 0

C5_Witness ==
    /\ Ended
    /\ state.errors # << >>
    /\ state.documents # << >>
    /\ state.final_answer = APOLOGY

SearchedNothing == Ended /\ calls["web_search"] >= 1 /\ state.documents = << >>

\* C6 as stated: empty evidence after web-search gives the "no information
\* found" answer and no citations, with or without errors.
C6_EmptyEvidenceAnswer ==
    SearchedNothing =>
        state.final_answer = NO_INFORMATION /\ state.citations = << >>

\* C6, amended: empty evidence after web-search gives no citations, and the
\* "no information found" answer when errors is empty; when errors is
\* non-empty the answer is the apology text.
C6_EmptyEvidenceByErrors ==
    SearchedNothing =>
        /\ state.citations = << >>
        /\ state.final_answer =
              IF state.errors = << >> THEN NO_INFORMATION ELSE APOLOGY

C6_Witness ==
    /\ SearchedNothing
    /\ state.errors = << >>
    /\ state.final_answer = NO_INFORMATION

\* The synthesis collaborator answered and the remap ran.
Remapped == Ended /\ synthCalls = 1

\* Positions of cited whose id resolves, and the url each refers to.
ResolvablePos == {j \in 1..Len(cited) : Resolves(state.documents, cited[j])}
CitedUrl(j) == state.documents[cited[j]].url
FirstRefPos == {j \in ResolvablePos : \A j2 \in ResolvablePos : j2 < j => CitedUrl(j2) # CitedUrl(j)}
Rank(j) == Cardinality({j2 \in FirstRefPos : j2 <= j})

\* C7: the citations have ids 1..n in list order, pairwise different urls,
\* and stand in the order in which their urls are first referenced by a
\* resolvable cited id; evidence [url1, url2] with cited_ids [2, 1, 2] gives
\* urls [url2, url1] and the markers [1][2][1].
C7_CitationsSequential ==
    Remapped =>
        LET c == state.citations
        IN  /\ \A i \in 1..Len(c) : c[i].id = i
            /\ \A i, j \in 1..Len(c) : i # j => c[i].url # c[j].url
            /\ Len(c) = Cardinality(FirstRefPos)
            /\ \A j \in FirstRefPos :
                  /\ c[Rank(j)].url = CitedUrl(j)
                  /\ c[Rank(j)].title = state.documents[cited[j]].title
            /\ ([i \in 1..Len(state.documents) |-> state.documents[i].url] = <<1, 2>>
                  /\ cited = <<2, 1, 2>>)
               => /\ [i \in 1..Len(c) |-> c[i].url] = <<2, 1>>
                  /\ markers = <<Bracketed(1), Bracketed(2), Bracketed(1)>>

C7_Witness ==
    /\ Remapped
    /\ [i \in 1..Len(state.documents) |-> state.documents[i].url] = <<1, 2>>
    /\ cited = <<2, 1, 2>>
    /\ Len(state.citations) = 2

\* C8: a cited id that resolves to no document adds no citation and no
\* marker: there are as many markers as resolvable cited ids.
C8_UnresolvableDropped ==
    Remapped =>
        /\ Len(markers) = Cardinality(ResolvablePos)
        /\ Len(state.citations) <= Cardinality(ResolvablePos)

\* C9: the marker of a resolvable cited id carries the id of the citation
\* entry that holds its document's url, also when that url was first cited
\* under another original id.
C9_MarkerIsCitationId ==
    (Remapped /\ Len(markers) = Len(cited)) =>
        \A j \in ResolvablePos :
            \E i \in 1..Len(state.citations) :
                /\ state.citations[i].url = CitedUrl(j)
                /\ markers[j] = Bracketed(state.citations[i].id)

\* C10: no two documents of the accumulated evidence share a url.
C10_EvidenceUrlsUnique ==
    \A i, j \in 1..Len(state.documents) :
        i # j => state.documents[i].url # state.documents[j].url

\* --------------------------------------------- the run's properties, II
ErrorKinds == {"RateLimit", "Timeout", "EmptyResult", "LLMFailure", "HTTPError", "UnknownError"}

ErrorRecords ==
    [step : {"generate", "search", "reflect", "synthesize"},
     error_type : ErrorKinds,
     message : Messages]

\* C14: a run that ended on the error path has the answer and the citations
\* that the same run would have with any other error kind and message in its
\* ErrorRecord.
C14_AnswerIgnoresErrorDetail ==
    (Ended /\ state.errors # << >>) =>
        \A e \in ErrorRecords :
            \A out \in {o \in SynthesizeOutcome : o.cited_ids = << >>} :
                LET other == synthesize_node([state EXCEPT !.errors = <<e>>], out)
                IN  /\ ~other.raised
                    /\ other.update.final_answer = state.final_answer
                    /\ other.update.citations = state.citations

C14_Witness ==
    /\ Ended
    /\ state.errors # << >>
    /\ state.errors[1].error_type = "HTTPError"
    /\ state.errors[1].message = <<"Request", "timed", "out">>
    /\ state.final_answer = APOLOGY

SearchErrored == \E k \in 1..Len(state.errors) : state.errors[k].step = "search"

\* C15 as stated: a run in which the web-search step recorded an error ends
\* with need_more = FALSE, in whichever round the search failed.
C15_NeedMoreFalse == (Ended /\ SearchErrored) => ~state.need_more

\* C15, amended: a run in which the web-search step recorded an error ends
\* with need_more = FALSE when the first search failed, and with
\* need_more = TRUE when a later search failed (reflection had asked for it).
C15_NeedMoreByRound ==
    (Ended /\ SearchErrored) => (state.need_more <=> calls["web_search"] > 1)

C15_Witness ==
    /\ Ended
    /\ SearchErrored
    /\ calls["web_search"] = 1
    /\ ~state.need_more

\* The transition table of the Loop Controller.
TableNext(from, st) ==
    CASE from = "generate_queries" ->
           IF st.errors # << >> THEN "synthesize" ELSE "web_search"
      [] from = "web_search" ->
           IF st.errors # << >> \/ st.documents = << >> THEN "synthesize" ELSE "reflect"
      [] from = "reflect" ->
           IF st.errors # << >> THEN "synthesize"
           ELSE IF st.need_more /\ st.loop_count < st.max_iter THEN "web_search"
           ELSE "synthesize"
      [] from = "synthesize" -> "END"

\* C16: after every step that returns, the next step is the one the
\* transition table gives for the updated state; reflect never runs on empty
\* evidence, and the synthesis collaborator is never called with empty
\* evidence or with errors recorded.
C16_RefinesTable ==
    /\ [][pc' # "raised" => pc' = TableNext(pc, state')]_vars
    /\ [](pc = "reflect" \/ calls["reflect"] > 0 => state.documents # << >>)
    /\ [](synthCalls > 0 => state.documents # << >> /\ state.errors = << >>)

C16_Witness ==
    /\ Ended
    /\ calls["reflect"] = 2
    /\ calls["web_search"] = 2
    /\ synthCalls = 1

IsPrefix(a, b) == Len(a) <= Len(b) /\ SubSeq(b, 1, Len(a)) = a

\* C17: over every step the evidence held before is a prefix of the evidence
\* held after, a failed web-search step included, and only the web-search
\* step extends it.
C17_EvidenceGrows ==
    [][/\ IsPrefix(state.documents, state'.documents)
       /\ state'.documents # state.documents => pc = "web_search"]_vars

C17_Witness ==
    /\ Ended
    /\ SearchErrored
    /\ calls["web_search"] = 2
    /\ state.documents # << >>

\* C19: errors is append-only: a step in which the collaborator failed adds
\* exactly one ErrorRecord, tagged with the step's name, after the records
\* held before; any other step leaves the list as it was.
C19_ErrorsAppendOnly ==
    [][IF raisedIn' # raisedIn
       THEN /\ Len(state'.errors) = Len(state.errors) + 1
            /\ IsPrefix(state.errors, state'.errors)
            /\ state'.errors[Len(state'.errors)].step = StepName(last')
       ELSE state'.errors = state.errors]_vars

\* C20: with no cited id there is no marker and no citation, and the answer
\* is the collaborator's text trimmed; there are as many markers as
\* resolvable cited ids; a resolvable id cited twice gets the same marker
\* twice, the new id of the one citation entry it contributed.
C20_MarkersAndCitations ==
    Remapped =>
        /\ cited = << >> =>
              /\ markers = << >>
              /\ state.citations = << >>
              /\ state.final_answer = Strip(answer)
        /\ Len(markers) = Cardinality(ResolvablePos)
        /\ \A j1, j2 \in ResolvablePos :
              (j1 < j2 /\ cited[j1] = cited[j2]) =>
                  /\ markers[j1] = markers[j2]
                  /\ Cardinality({i \in 1..Len(state.citations) :
                                    state.citations[i].url = CitedUrl(j1)}) = 1
                  /\ \E i \in 1..Len(state.citations) :
                        /\ state.citations[i].url = CitedUrl(j1)
                        /\ markers[j1] = Bracketed(state.citations[i].id)

\* The node has run on a batch that was gathered.
Joined == ~gathering /\ last = "web_search" /\ tasks # << >>

Failed(i) == tasks[i].kind \in {"init_raises", "arun_raises"}

DocsOf(i) == {tasks[i].res.docs[k] : k \in 1..Len(tasks[i].res.docs)}

Elems(seq) == {seq[k] : k \in 1..Len(seq)}

\* C11: in a batch with a failed call the batch is not aborted: the failed
\* call adds no document, and the url of every document another call
\* returned is in the coordinator's result, which is merged into the evidence.
C11_FailureIsolated ==
    (Joined /\ \E i \in 1..Len(tasks) : Failed(i)) =>
        /\ state.errors = << >>
        /\ \A i \in 1..Len(tasks) : Failed(i) => DocsOf(i) = {}
        /\ \A i \in 1..Len(tasks) : \A d \in DocsOf(i) :
              \E r \in Elems(unique_results) : r.url = d.url
        /\ Elems(unique_results) \subseteq UNION {DocsOf(i) : i \in 1..Len(tasks)}
        /\ state.documents = held \o unique_results

C11_Witness ==
    /\ Joined
    /\ Len(tasks) = 2
    /\ tasks[1].kind = "init_raises"
    /\ tasks[2].res.docs # << >>
    /\ unique_results = tasks[2].res.docs

\* C12: when every call of a non-empty batch has failed, the web-search step
\* records an ErrorRecord with step = search and the run goes to synthesize,
\* which answers with the apology.
C12_AllFailedSurfaced ==
    (Joined /\ \A i \in 1..Len(tasks) : Failed(i)) =>
        /\ \E k \in 1..Len(state.errors) : state.errors[k].step = "search"
        /\ pc = "synthesize"
        /\ \A out \in SynthesizeOutcome :
              synthesize_node(state, out).update.final_answer = APOLOGY

Pending == {i \in 1..Len(tasks) : ~tasks[i].done}

\* C13: while a call of the round is outstanding the web-search step has not
\* returned: the run is still at web_search, the evidence is as it was when
\* the batch was dispatched, and the step's update comes only when every
\* call has completed.
C13_Join ==
    /\ Pending # {} => /\ gathering
                       /\ pc = "web_search"
                       /\ state.documents = held
                       /\ last # "web_search"
    /\ Joined => /\ Len(completed) = Len(tasks)
                 /\ state.documents = held \o unique_results

C13_Witness ==
    /\ Joined
    /\ completed = <<2, 1>>
    /\ tasks[2].res.docs # << >>
    /\ state.documents = unique_results
    /\ pc = "reflect"

FlatBatch == Flatten([i \in 1..Len(tasks) |-> tasks[i].res])

FirstIndex(flat, url) ==
    CHOOSE k \in 1..Len(flat) :
        flat[k].url = url /\ \A k2 \in 1..(k - 1) : flat[k2].url # url

\* C18: the batch's result holds each url once, for each url the first
\* document of the flattened results that carries it, in the order in which
\* the urls first occur; de-duplicating the result again changes nothing.
C18_BatchDedupe ==
    Joined =>
        LET flat == FlatBatch
            r == unique_results
        IN  /\ \A a, b \in 1..Len(r) : a # b => r[a].url # r[b].url
            /\ {r[a].url : a \in 1..Len(r)} = {flat[k].url : k \in 1..Len(flat)}
            /\ \A a \in 1..Len(r) : r[a] = flat[FirstIndex(flat, r[a].url)]
            /\ \A a, b \in 1..Len(r) :
                  a < b => FirstIndex(flat, r[a].url) < FirstIndex(flat, r[b].url)
            /\ Dedupe(r, {}) = r

C18_Witness ==
    /\ Joined
    /\ Len(FlatBatch) = 2
    /\ FlatBatch[1].url = FlatBatch[2].url
    /\ FlatBatch[1].title # FlatBatch[2].title
    /\ unique_results = <<FlatBatch[1]>>

Orders(n) == {p \in [1..n -> 1..n] : \A a, b \in 1..n : a # b => p[a] # p[b]}

\* C22: the batch's result is the one every completion order of the same
\* calls gives: it is fixed by the queries' order and each call's own result.
C22_OrderIndependent ==
    Joined =>
        \A p \in Orders(Len(tasks)) :
            LET g == gather(tasks, p)
            IN  /\ ~g.raised
                /\ run_concurrent(state.queries, g.results_lists) = unique_results

C22_Witness ==
    /\ Joined
    /\ completed = <<2, 1>>
    /\ Len(unique_results) = 2
    /\ unique_results[1] = tasks[1].res.docs[1]
    /\ unique_results[2] = tasks[2].res.docs[1]

\* -------------------------------------------- the run's properties, III
\* C21: after every execution of the web-search step, also a failed one, the
\* pending queries are the empty list.
C21_QueriesClearedAfterSearch == last = "web_search" => state.queries = << >>

\* C23: from loop_count = 0, while the run has a state, loop_count is the
\* number of reflect steps that have run; a reflect step adds exactly 1 and
\* no other step changes it; with max_iter >= 1, loop_count <= max_iter.
C23_LoopCount ==
    /\ [](pc # "raised" => state.loop_count = calls["reflect"])
    /\ [](state.max_iter >= 1 => state.loop_count <= state.max_iter)
    /\ [][state'.loop_count =
             IF pc = "reflect" /\ pc' # "raised"
             THEN state.loop_count + 1 ELSE state.loop_count]_vars

C23_Witness ==
    /\ Ended
    /\ state.max_iter = 2
    /\ state.loop_count = 2
    /\ calls["reflect"] = 2

\* The fields a step may write; errors only when its collaborator failed.
OwnFields(node) ==
    CASE node = "generate_queries" -> {"queries"}
      [] node = "web_search" -> {"documents", "queries"}
      [] node = "reflect" -> {"need_more", "queries", "loop_count"}
      [] node = "synthesize" -> {"final_answer", "citations"}

Changed(f) == state'[f] # state[f]

\* C24: a step changes only its own fields, and errors only when the
\* collaborator of generate-queries or web-search failed; question and
\* max_iter never change.
C24_Frame ==
    [][/\ \A f \in DOMAIN state :
            Changed(f) => \/ f \in OwnFields(pc)
                          \/ /\ f = "errors"
                             /\ pc \in {"generate_queries", "web_search"}
                             /\ raisedIn' # raisedIn
       /\ ~Changed("question")
       /\ ~Changed("max_iter")]_vars

C24_Witness ==
    /\ Ended
    /\ calls["reflect"] = 2
    /\ state.need_more
    /\ state.queries # << >>
    /\ state.citations # << >>

IsRateLimitMessage(msg) == Contains(msg, "429") \/ Contains(msg, "Too Many Requests")

\* C25: a failed web-search step leaves one ErrorRecord with step = search,
\* of kind RateLimit exactly when the failure's message holds "429" or
\* "Too Many Requests" and HTTPError otherwise (a timeout too); a failed
\* generate-queries step leaves one with step = generate, of kind RateLimit
\* for a RateLimitError and LLMFailure otherwise, and empty pending queries.
C25_ErrorKinds ==
    /\ "web_search" \in raisedIn =>
          state.errors =
             <<[step |-> "search",
                error_type |-> IF IsRateLimitMessage(failure.msg)
                               THEN "RateLimit" ELSE "HTTPError",
                message |-> failure.msg]>>
    /\ "generate_queries" \in raisedIn =>
          /\ state.errors =
                <<[step |-> "generate",
                   error_type |-> IF failure.kind = "RateLimitError"
                                  THEN "RateLimit" ELSE "LLMFailure",
                   message |-> failure.msg]>>
          /\ state.queries = << >>

C25_Witness ==
    /\ Ended
    /\ "web_search" \in raisedIn
    /\ failure.msg = <<"Too Many Requests">>
    /\ state.errors[1].error_type = "RateLimit"

====
